---- MODULE Spec2Model ----
(***************************************************************************)
(* Model of the hyperparameter training loop of optimize() in              *)
(* src/optimize_parameters.py.                                             *)
(*                                                                         *)
(* Real numbers are integers counted in units of 10^-6 (0.0001 is 100,     *)
(* 0.02 is 20000, 50.0 is 50000000).  A float is a record: Fin(x) is the   *)
(* finite value x, NaN stands for every non-finite float.                  *)
(*                                                                         *)
(* The reservoir transform, the ridge readout and reverse-mode             *)
(* differentiation are library code: the loss and the gradients they       *)
(* return are inputs of the loop, drawn from small sets.                   *)
(***************************************************************************)
EXTENDS Integers, Sequences, FiniteSets, TLC

VARIABLES epochs, epoch, pc, cell, lmb, loss_, grads, data,
          steplog, nforward, nsteps, nonfinite

\* epochs .. data are the program's variables.  The last four record the run:
\* steplog is the sequence of events of the current epoch, nforward and nsteps
\* count the forward passes and the optimizer updates executed so far, and
\* nonfinite is the set of epochs that produced a non-finite loss or gradient.
vars == <<epochs, epoch, pc, cell, lmb, loss_, grads, data,
          steplog, nforward, nsteps, nonfinite>>

\* Largest epoch count explored (the program itself sets epochs = 50).
MaxEpochs == 2

\* ---------------------------------------------------------------- floats

Fin(x) == [fin |-> TRUE, v |-> x]

NaN == [fin |-> FALSE, v |-> 0]

Max(a, b) == IF a < b THEN b ELSE a

Min(a, b) == IF b < a THEN b ELSE a

\* tf.clip_by_value(t, lo, hi) = minimum(maximum(t, lo), hi); a NaN passes through.
clip_by_value(t, lo, hi) == IF t.fin THEN Fin(Min(Max(t.v, lo), hi)) ELSE t

\* ------------------------------------------------------------- constants

\* optimize_vars of the cell: the variables the optimizer trains.
optimize_vars == {"rho", "decay", "alpha", "sw"}

\* Mutant of lmb_trainable: lmb created as a trainable variable.
lmb_trainable_true == TRUE

\* self.lmb = tf.Variable(lmb, trainable=False)
lmb_trainable == FALSE

\* regression_model.trainable_variables
trainable_variables == optimize_vars \cup (IF lmb_trainable THEN {"lmb"} ELSE {})

\* Lower and upper arguments of the four clip_by_value calls.
clip_min == [decay |-> 100, alpha |-> 50000, rho |-> 500000, sw |-> 500000]

clip_max == [decay |-> 250000, alpha |-> 950000, rho |-> 50000000, sw |-> 50000000]

\* EchoStateRNNCell(..., decay=0.000001, alpha=0.5, ...)
cell_args == [decay |-> Fin(1), alpha |-> Fin(500000)]

\* rho and sw are not passed: the cell's own defaults, 1.0 each.
cell_defaults == [rho |-> Fin(1000000), sw |-> Fin(1000000)]

\* The four hyperparameters as the cell is constructed.
cell_init == [v \in optimize_vars |->
                IF v \in DOMAIN cell_args THEN cell_args[v] ELSE cell_defaults[v]]

\* lmb=0.02, the default of EchoStateOptimizer.__init__ (optimize() passes none).
lmb_init == Fin(20000)

\* tf.optimizers.Adam(learning_rate=0.02)
learning_rate == 20000

\* The five series of data.
Names == {"loss", "alpha", "decay", "rho", "sw"}

\* data = {name: np.zeros(epochs) for name in Names}
data_init(n) == [name \in Names |->
                    [i \in 1..n |-> Fin(0)]]

\* ------------------------------------------------- library calls (inputs)

\* Finite values the mean squared error may take (0 iff the fit is exact).
LossVals == {Fin(0), Fin(1)}

\* regression_model([inputs, targets]) and the mean squared error: a NaN
\* hyperparameter makes every state, and so the loss, NaN; otherwise the
\* loss is some finite value or overflows.
call(c) == IF \E v \in DOMAIN c : ~c[v].fin THEN {NaN} ELSE LossVals \cup {NaN}

\* tape.gradient(loss_, trainable_variables): one gradient per trainable
\* variable, normalised to its sign; all NaN when the loss is NaN, and
\* possibly all NaN when it is finite.
gradient(l) ==
    IF l.fin
    THEN [trainable_variables -> {Fin(-1), Fin(1)}]
            \cup {[v \in trainable_variables |-> NaN]}
    ELSE {[v \in trainable_variables |-> NaN]}

\* One Adam update of a variable: a displacement of learning_rate against the
\* gradient's sign; a non-finite gradient leaves NaN in the variable.
adam(x, g) == IF x.fin /\ g.fin THEN Fin(x.v - learning_rate * g.v) ELSE NaN

\* ------------------------------------------------------------------ state

Init ==
    /\ epochs \in 0..MaxEpochs
    /\ epoch = 0
    /\ pc = "loop"
    /\ cell = cell_init
    /\ lmb = lmb_init
    /\ loss_ = Fin(0)
    /\ grads = [v \in trainable_variables |-> Fin(0)]
    /\ data = data_init(epochs)
    /\ steplog = <<>>
    /\ nforward = 0
    /\ nsteps = 0
    /\ nonfinite = {}

\* Mutant of LoopEnter: the body runs once before the epoch count is tested.
LoopEnterAtLeastOnce ==
    /\ pc = "loop"
    /\ (epoch < epochs \/ epoch = 0)
    /\ pc' = "forward"
    /\ steplog' = <<>>
    /\ UNCHANGED <<epochs, epoch, cell, lmb, loss_, grads, data, nforward, nsteps,
                   nonfinite>>

\* for epoch in range(epochs): another iteration starts
LoopEnter ==
    /\ pc = "loop"
    /\ epoch < epochs
    /\ pc' = "forward"
    /\ steplog' = <<>>
    /\ UNCHANGED <<epochs, epoch, cell, lmb, loss_, grads, data, nforward, nsteps,
                   nonfinite>>

\* Mutant of LoopExit: early stopping once an epoch reached a zero loss.
LoopExitOnZeroLoss ==
    /\ pc = "loop"
    /\ (epoch >= epochs \/ (epoch > 0 /\ loss_ = Fin(0)))
    /\ pc' = "done"
    /\ UNCHANGED <<epochs, epoch, cell, lmb, loss_, grads, data, steplog,
                   nforward, nsteps, nonfinite>>

\* for epoch in range(epochs): the range is exhausted
LoopExit ==
    /\ pc = "loop"
    /\ epoch >= epochs
    /\ pc' = "done"
    /\ UNCHANGED <<epochs, epoch, cell, lmb, loss_, grads, data, steplog,
                   nforward, nsteps, nonfinite>>

\* outputs = regression_model([inputs, targets]); loss_ = reduce_mean(square(..))
Forward ==
    /\ pc = "forward"
    /\ \E l \in call(cell) :
          /\ loss_' = l
          /\ nonfinite' = IF l.fin THEN nonfinite ELSE nonfinite \cup {epoch}
    /\ nforward' = nforward + 1
    /\ steplog' = Append(steplog, "forward")
    /\ pc' = "gradient"
    /\ UNCHANGED <<epochs, epoch, cell, lmb, grads, data, nsteps>>

\* grads = tape.gradient(loss_, regression_model.trainable_variables)
Gradient ==
    /\ pc = "gradient"
    /\ \E g \in gradient(loss_) :
          /\ grads' = g
          /\ nonfinite' = IF \A v \in DOMAIN g : g[v].fin
                          THEN nonfinite ELSE nonfinite \cup {epoch}
    /\ steplog' = Append(steplog, "gradient")
    /\ pc' = "clip"
    /\ UNCHANGED <<epochs, epoch, cell, lmb, loss_, data, nforward, nsteps>>

\* the four cell.<v>.assign(tf.clip_by_value(cell.<v>, lo, hi))
Clip ==
    /\ pc = "clip"
    /\ cell' = [v \in DOMAIN cell |-> clip_by_value(cell[v], clip_min[v], clip_max[v])]
    /\ steplog' = Append(steplog, "clamp")
    /\ pc' = "apply"
    /\ UNCHANGED <<epochs, epoch, lmb, loss_, grads, data, nforward, nsteps, nonfinite>>

\* optimizer.apply_gradients(zip(grads, regression_model.trainable_variables))
ApplyGradients ==
    /\ pc = "apply"
    /\ cell' = [v \in DOMAIN cell |->
                  IF v \in trainable_variables THEN adam(cell[v], grads[v])
                                               ELSE cell[v]]
    /\ lmb' = IF "lmb" \in trainable_variables THEN adam(lmb, grads["lmb"]) ELSE lmb
    /\ nsteps' = nsteps + 1
    /\ steplog' = Append(steplog, "update")
    /\ pc' = "record"
    /\ UNCHANGED <<epochs, epoch, loss_, grads, data, nforward, nonfinite>>

\* Mutant of RecordIndex: off by one, the slot before the epoch's own.
RecordIndexStale == Max(1, epoch)

\* Mutant of RecordedValue: the projected value is logged, not the variable's.
RecordedValueClipped(v) == clip_by_value(cell[v], clip_min[v], clip_max[v])

\* the index data[name][epoch] is written at (1-based here)
RecordIndex == epoch + 1

\* alpha = cell.alpha.numpy() ... : the value logged for hyperparameter v
RecordedValue(v) == cell[v]

\* data['loss'][epoch] = loss; data[v][epoch] = cell.<v>.numpy(); print(...)
Record ==
    /\ pc = "record"
    /\ data' = [name \in DOMAIN data |->
                  [data[name] EXCEPT ![RecordIndex] =
                      IF name = "loss" THEN loss_ ELSE RecordedValue(name)]]
    /\ steplog' = Append(steplog, "record")
    /\ epoch' = epoch + 1
    /\ pc' = "loop"
    /\ UNCHANGED <<epochs, cell, lmb, loss_, grads, nforward, nsteps, nonfinite>>

Next ==
    \/ LoopEnter
    \/ LoopExit
    \/ Forward
    \/ Gradient
    \/ Clip
    \/ ApplyGradients
    \/ Record

Spec == Init /\ [][Next]_vars

\* The loop is straight-line single-threaded code: an enabled step is taken.
FairSpec == Spec /\ WF_vars(Next)

\* ----------------------------------------------------------------- claims

\* The hyperparameter v lies in its declared closed interval.
InRange(v) == cell[v].fin /\ clip_min[v] <= cell[v].v /\ cell[v].v <= clip_max[v]

AllInRange == \A v \in optimize_vars : InRange(v)

\* C1: after every optimizer step (every completed epoch) each of the four
\* hyperparameters lies within its declared interval, for any gradient the
\* step produced; stated here for the runs whose losses and gradients are all
\* finite, which the claim covers.
InRangeAfterStep ==
    (nonfinite = {} /\ (pc = "record" \/ (pc \in {"loop", "done"} /\ epoch > 0)))
        => AllInRange

\* C2: within an epoch the events are forward pass, gradient computation,
\* adaptive update, clamp, in this order, and nothing writes a hyperparameter
\* after the clamp.
ClampAfterUpdate ==
    Len(steplog) >= 4 =>
        SubSeq(steplog, 1, 4) = <<"forward", "gradient", "update", "clamp">>

\* C3: whenever the forward pass is about to run, in the first epoch as in
\* every later one, all four hyperparameters are in range.
ForwardInRange == pc = "forward" => AllInRange

\* C4: the loop runs epochs 0, 1, ..., epochs-1 in order, one forward pass and
\* one update each, then is Done; the next control point is a function of the
\* control point and the epoch counter alone (never of the loss), and Done is
\* reached.
LinearLoop ==
    /\ [](/\ epoch <= epochs
          /\ nsteps = epoch + (IF pc = "record" THEN 1 ELSE 0)
          /\ nforward = epoch + (IF pc \in {"gradient", "clip", "apply", "record"}
                                 THEN 1 ELSE 0)
          /\ (pc = "done" => epoch = epochs /\ nsteps = epochs /\ nforward = epochs))
    /\ [][/\ pc = "loop" => pc' = (IF epoch < epochs THEN "forward" ELSE "done")
          /\ pc = "forward" => pc' = "gradient"
          /\ pc = "gradient" => pc' = "clip"
          /\ pc = "clip" => pc' = "apply"
          /\ pc = "apply" => pc' = "record"
          /\ pc = "record" => pc' = "loop" /\ epoch' = epoch + 1
          /\ pc # "record" => epoch' = epoch
          /\ pc # "done"]_vars
    /\ <>(pc = "done")

\* C4 witness: a run of MaxEpochs epochs is Done after two epochs whose losses
\* differ.
LinearLoopWitness ==
    /\ pc = "done"
    /\ epochs = MaxEpochs
    /\ nsteps = MaxEpochs
    /\ data["loss"][1] # data["loss"][MaxEpochs]

\* C5: the metrics hold one record per completed epoch, in order: the slots of
\* epochs not yet completed are untouched, an epoch's step writes exactly its
\* own record, the records of earlier epochs never change, and the length is
\* the epoch count.
MetricsAppendOnly ==
    /\ [](\A name \in Names :
            /\ Len(data[name]) = epochs
            /\ \A i \in 1..epochs : i > epoch => data[name][i] = Fin(0))
    /\ [](pc = "done" => epoch = epochs)
    /\ [][/\ \A name \in Names : \A i \in 1..epoch : data'[name][i] = data[name][i]
          /\ epoch' = epoch + 1 =>
                /\ data'["loss"][epoch'] = loss_
                /\ \A v \in optimize_vars : data'[v][epoch'] = cell[v]]_vars

\* C5 witness: Done with MaxEpochs records, the first differing from the last.
MetricsAppendOnlyWitness ==
    /\ pc = "done"
    /\ epoch = MaxEpochs
    /\ data["decay"][1] # data["decay"][MaxEpochs]
    /\ data["decay"][1] # Fin(0)

\* C6: a run with epochs = 0 has an empty metrics trajectory and executes no
\* forward pass, no update and no clamp.
ZeroEpochs ==
    epochs = 0 =>
        /\ \A name \in Names : Len(data[name]) = 0
        /\ nforward = 0
        /\ nsteps = 0
        /\ steplog = <<>>
        /\ cell = cell_init

\* C6 witness: the run with epochs = 0 is Done.
ZeroEpochsWitness == epochs = 0 /\ pc = "done"

\* C7: a non-finite loss or gradient is fatal: the run goes no further than the
\* epoch that produced it, applies no update in it and writes no record for it.
NonFiniteIsFatal ==
    \A k \in nonfinite :
        /\ epoch = k
        /\ nsteps <= k
        /\ pc \in {"gradient", "clip", "apply"}

\* C8: lambda keeps its strictly positive initial value in every state.
LambdaFixed == lmb = lmb_init /\ lmb.fin /\ lmb.v > 0

\* C8 witness: updates and clamps have run and moved the hyperparameters.
LambdaFixedWitness == pc = "done" /\ nsteps = MaxEpochs /\ cell # cell_init

\* C9: whenever apply_gradients is about to be called, all four
\* hyperparameters are in range, whatever the previous update left.
ClippedAtApply == pc = "apply" => AllInRange

\* C10: the hyperparameter values recorded for epoch k are the values the
\* forward pass of epoch k+1 runs with.
RecordedIsUsed ==
    (pc = "forward" /\ epoch > 0) =>
        \A v \in optimize_vars : data[v][epoch] = cell[v]

\* C10 witness: the second forward pass is about to run with a decay the
\* update pushed below its interval.
RecordedIsUsedWitness ==
    /\ pc = "forward"
    /\ epoch = 1
    /\ cell["decay"].fin
    /\ cell["decay"].v < clip_min["decay"]

====
